---- MODULE Spec2Model ----
(***************************************************************************)
(* Model of the SGR20 market-indicator tooling:                            *)
(*   - fetchData (the collector that writes candle_data.csv),              *)
(*   - aggregateCandleData (the OHLCV aggregation behind /api/...).        *)
(*                                                                         *)
(* Text is a sequence of one-character strings, so that the JavaScript     *)
(* conversions (parseInt, parseFloat, BigInt, toString) are computed from  *)
(* the characters.  A JavaScript value that may be NaN, undefined or a     *)
(* thrown SyntaxError is a sequence of length 0 or 1: << >> is NaN /       *)
(* undefined / throws, <<n>> is the number n.                              *)
(***************************************************************************)
EXTENDS Integers, Sequences, FiniteSets

\* ------------------------------------------------------------------ bounds
MaxRecords == 3   \* longest records array handed to aggregateCandleData
MaxTx == 3        \* largest totalTx the contract reports to fetchData
MaxCalls == 3     \* calls of aggregateCandleData made one after the other
MaxEvents == 3    \* events in allEvents of downloadAllEvents

\* ------------------------------------------------------- text conversions
NaN == << >>
Num(n) == << n >>
IsNum(m) == Len(m) = 1
Val(m) == m[1]

DecDigits == <<"0", "1", "2", "3", "4", "5", "6", "7", "8", "9">>
IsDigit(c) == \E d \in 1..10 : DecDigits[d] = c
DigitVal(c) == (CHOOSE d \in 1..10 : DecDigits[d] = c) - 1
IsWhite(c) == c = " "

Drop(s, n) == SubSeq(s, n + 1, Len(s))

RECURSIVE TrimLeft(_)
TrimLeft(s) == IF s # << >> /\ IsWhite(s[1]) THEN TrimLeft(Tail(s)) ELSE s

RECURSIVE TrimRight(_)
TrimRight(s) ==
    IF s # << >> /\ IsWhite(s[Len(s)]) THEN TrimRight(SubSeq(s, 1, Len(s) - 1)) ELSE s

\* length of the longest prefix of s made of decimal digits
RECURSIVE DigitPrefixLen(_)
DigitPrefixLen(s) ==
    IF s # << >> /\ IsDigit(s[1]) THEN 1 + DigitPrefixLen(Tail(s)) ELSE 0

\* value of a run of decimal digits
RECURSIVE DecVal(_)
DecVal(s) ==
    IF s = << >> THEN 0 ELSE 10 * DecVal(SubSeq(s, 1, Len(s) - 1)) + DigitVal(s[Len(s)])

HasSign(s) == s # << >> /\ s[1] \in {"+", "-"}
SignOf(s) == IF s # << >> /\ s[1] = "-" THEN -1 ELSE 1

\* parseInt(text, 10): leading white space, an optional sign, then the longest
\* run of decimal digits; anything after the run is ignored; NaN with no digit.
ParseInt(text) ==
    LET s == TrimLeft(text)
        body == IF HasSign(s) THEN Tail(s) ELSE s
        n == DigitPrefixLen(body)
    IN  IF n = 0 THEN NaN ELSE Num(SignOf(s) * DecVal(SubSeq(body, 1, n)))

\* parseFloat(text) on texts whose numeric prefix has neither a fraction nor an
\* exponent part and is not "Infinity" (TextOk below): the same prefix rule as
\* parseInt, NaN when no digit starts the trimmed text.
ParseFloat(text) ==
    LET s == TrimLeft(text)
        body == IF HasSign(s) THEN Tail(s) ELSE s
        n == DigitPrefixLen(body)
    IN  IF n = 0 THEN NaN ELSE Num(SignOf(s) * DecVal(SubSeq(body, 1, n)))

\* BigInt(text): white space trimmed at both ends; the empty text is 0n; an
\* optional sign followed by decimal digits only; every other text throws a
\* SyntaxError (<< >>).  Texts with a 0x / 0o / 0b prefix are outside TextOk.
ToBigInt(text) ==
    LET s == TrimRight(TrimLeft(text))
        body == IF HasSign(s) THEN Tail(s) ELSE s
    IN  IF s = << >> THEN Num(0)
        ELSE IF body # << >> /\ DigitPrefixLen(body) = Len(body)
             THEN Num(SignOf(s) * DecVal(body))
             ELSE NaN

\* n.toString() of an integer (number or bigint)
RECURSIVE NatToString(_)
NatToString(n) ==
    IF n < 10 THEN << DecDigits[n + 1] >>
    ELSE Append(NatToString(n \div 10), DecDigits[(n % 10) + 1])

ToString(n) == IF n < 0 THEN << "-" >> \o NatToString(-n) ELSE NatToString(n)

\* the texts the conversions above are exact for
TextOk(text) ==
    LET s == TrimLeft(text)
        body == IF HasSign(s) THEN Tail(s) ELSE s
        rest == Drop(body, DigitPrefixLen(body))
    IN  /\ \A k \in 1..Len(text) : text[k] \notin {".", "I"}
        /\ ~(DigitPrefixLen(body) > 0 /\ rest # << >> /\ rest[1] \in {"e", "E", "x", "o", "b"})

ErrorText == <<"E", "r", "r", "o", "r">>

\* ------------------------------------------------------ aggregateCandleData
\* the state of a call of aggregateCandleData
VARIABLES records, timeframeInSeconds, outputAsString, recIdx, aggregatedCandles,
          aggPc, candleData

aggVars == << records, timeframeInSeconds, outputAsString, recIdx, aggregatedCandles,
              aggPc, candleData >>

\* the state of a run of fetchData
VARIABLES fetchPc, totalTx, i, curTimestamp, curCandle, tVolData, allCandleData,
          cumulativeTotalVolume, currentDay, currentDayCumulativeVolume,
          dailyVolumeMap, csvFile

\* the contract calls of the run: `issued` lists them in the order they were made,
\* `pending` holds those whose promise has not settled yet
VARIABLES issued, pending

fetchVars == << fetchPc, totalTx, i, curTimestamp, curCandle, tVolData, allCandleData,
                cumulativeTotalVolume, currentDay, currentDayCumulativeVolume,
                dailyVolumeMap, csvFile, issued, pending >>

\* repeated calls of aggregateCandleData: the calls that have returned or thrown,
\* and the array the caller passed to the call under way
VARIABLES calls, argRecords

repeatVars == << calls, argRecords >>

\* the HTTP server: candle_data.csv as it lies on disk, the request being
\* answered (route, :timeframe parameter, ?format= query), the response sent
\* and the helper functions the handler called for it
VARIABLES candleCsv, endpoint, timeframe, format, res, trace

httpVars == << candleCsv, endpoint, timeframe, format, res, trace >>

\* downloadAllEvents: the events gathered by the first loop, the position of the
\* second loop in them, the timestamp cache, the records built, the
\* provider.getBlock calls made, the blocks a warning was logged for and the
\* CSV written at the end
VARIABLES allEvents, evIdx, blockTimestampCache, eventRecords, getBlockCalls, warnedBlocks,
          eventsCsv

eventVars ==
    << allEvents, evIdx, blockTimestampCache, eventRecords, getBlockCalls, warnedBlocks,
       eventsCsv >>

otherVars == << repeatVars, httpVars, eventVars >>

vars == << aggVars, fetchVars, otherVars >>

Undefined == << >>

\* Math.floor(timestamp / timeframeInSeconds) * timeframeInSeconds; NaN stays NaN
BucketTimestamp(timestamp, tf) ==
    IF IsNum(timestamp) THEN Num((Val(timestamp) \div tf) * tf) ELSE NaN

\* aggregatedCandles is the object's own properties in creation order
HasKey(cands, key) == \E k \in 1..Len(cands) : cands[k].key = key
KeyIndex(cands, key) == CHOOSE k \in 1..Len(cands) : cands[k].key = key

\* mutant of MaxOf: Math.min written where Math.max belongs
MinWhereMaxBelongs(a, b) == IF a < b THEN a ELSE b

MaxOf(a, b) == IF a > b THEN a ELSE b

\* mutant of MinOf: Math.max written where Math.min belongs
MaxWhereMinBelongs(a, b) == IF a > b THEN a ELSE b

MinOf(a, b) == IF a < b THEN a ELSE b

\* mutant of FoldExact: a later tick of a bucket does not replace close
FoldExactKeepsFirstClose(cands, record, tf) ==
    LET timestamp == ParseInt(record.UnixTimestamp)
        open == ToBigInt(record.Open)
        high == ToBigInt(record.High)
        low == ToBigInt(record.Low)
        close == ToBigInt(record.Close)
        volume == ToBigInt(record.tVol)
        bucketTimestamp == BucketTimestamp(timestamp, tf)
    IN  IF \E v \in {open, high, low, close, volume} : ~IsNum(v) THEN cands
        ELSE IF ~HasKey(cands, bucketTimestamp)
        THEN Append(cands, [key |-> bucketTimestamp, open |-> Val(open), high |-> Val(high),
                            low |-> Val(low), close |-> Val(close), volume |-> Val(volume)])
        ELSE LET k == KeyIndex(cands, bucketTimestamp)
                 candle == cands[k]
             IN  [cands EXCEPT ![k] =
                     [candle EXCEPT !.high = IF Val(high) > candle.high THEN Val(high) ELSE candle.high,
                                    !.low = IF Val(low) < candle.low THEN Val(low) ELSE candle.low,
                                    !.volume = candle.volume + Val(volume)]]

\* mutant of FoldExact: a later tick of a bucket overwrites volume (= for +=)
FoldExactOverwritesVolume(cands, record, tf) ==
    LET timestamp == ParseInt(record.UnixTimestamp)
        open == ToBigInt(record.Open)
        high == ToBigInt(record.High)
        low == ToBigInt(record.Low)
        close == ToBigInt(record.Close)
        volume == ToBigInt(record.tVol)
        bucketTimestamp == BucketTimestamp(timestamp, tf)
    IN  IF \E v \in {open, high, low, close, volume} : ~IsNum(v) THEN cands
        ELSE IF ~HasKey(cands, bucketTimestamp)
        THEN Append(cands, [key |-> bucketTimestamp, open |-> Val(open), high |-> Val(high),
                            low |-> Val(low), close |-> Val(close), volume |-> Val(volume)])
        ELSE LET k == KeyIndex(cands, bucketTimestamp)
                 candle == cands[k]
             IN  [cands EXCEPT ![k] =
                     [candle EXCEPT !.high = IF Val(high) > candle.high THEN Val(high) ELSE candle.high,
                                    !.low = IF Val(low) < candle.low THEN Val(low) ELSE candle.low,
                                    !.close = Val(close),
                                    !.volume = Val(volume)]]

\* one iteration of the BigInt loop: any BigInt() that throws skips the record
FoldExact(cands, record, tf) ==
    LET timestamp == ParseInt(record.UnixTimestamp)
        open == ToBigInt(record.Open)
        high == ToBigInt(record.High)
        low == ToBigInt(record.Low)
        close == ToBigInt(record.Close)
        volume == ToBigInt(record.tVol)
        bucketTimestamp == BucketTimestamp(timestamp, tf)
    IN  IF \E v \in {open, high, low, close, volume} : ~IsNum(v) THEN cands
        ELSE IF ~HasKey(cands, bucketTimestamp)
        THEN Append(cands, [key |-> bucketTimestamp, open |-> Val(open), high |-> Val(high),
                            low |-> Val(low), close |-> Val(close), volume |-> Val(volume)])
        ELSE LET k == KeyIndex(cands, bucketTimestamp)
                 candle == cands[k]
             IN  [cands EXCEPT ![k] =
                     [candle EXCEPT !.high = IF Val(high) > candle.high THEN Val(high) ELSE candle.high,
                                    !.low = IF Val(low) < candle.low THEN Val(low) ELSE candle.low,
                                    !.close = Val(close),
                                    !.volume = candle.volume + Val(volume)]]

\* one iteration of the floating point loop: a NaN among the six values skips
FoldApprox(cands, record, tf) ==
    LET timestamp == ParseInt(record.UnixTimestamp)
        open == ParseFloat(record.Open)
        high == ParseFloat(record.High)
        low == ParseFloat(record.Low)
        close == ParseFloat(record.Close)
        volume == ParseFloat(record.tVol)
        bucketTimestamp == BucketTimestamp(timestamp, tf)
    IN  IF \E v \in {timestamp, open, high, low, close, volume} : ~IsNum(v) THEN cands
        ELSE IF ~HasKey(cands, bucketTimestamp)
        THEN Append(cands, [key |-> bucketTimestamp, open |-> Val(open), high |-> Val(high),
                            low |-> Val(low), close |-> Val(close), volume |-> Val(volume)])
        ELSE LET k == KeyIndex(cands, bucketTimestamp)
                 candle == cands[k]
             IN  [cands EXCEPT ![k] =
                     [candle EXCEPT !.high = MaxOf(candle.high, Val(high)),
                                    !.low = MinOf(candle.low, Val(low)),
                                    !.close = Val(close),
                                    !.volume = candle.volume + Val(volume)]]

\* Object.entries / Object.values: the array-index keys (canonical non-negative
\* integers) in ascending order, then the other keys ("-60", "NaN") in creation order
IsIndexKey(key) == IsNum(key) /\ Val(key) >= 0

RECURSIVE InsertByKey(_, _)
InsertByKey(sorted, e) ==
    IF sorted = << >> THEN << e >>
    ELSE IF Val(e.key) < Val(sorted[1].key) THEN << e >> \o sorted
    ELSE << sorted[1] >> \o InsertByKey(Tail(sorted), e)

RECURSIVE SortByKey(_)
SortByKey(s) ==
    IF s = << >> THEN << >> ELSE InsertByKey(SortByKey(SubSeq(s, 1, Len(s) - 1)), s[Len(s)])

OwnPropertyOrder(cands) ==
    SortByKey(SelectSeq(cands, LAMBDA e : IsIndexKey(e.key)))
        \o SelectSeq(cands, LAMBDA e : ~IsIndexKey(e.key))

\* .sort((a, b) => a.unixTimestamp - b.unixTimestamp): a stable sort
RECURSIVE InsertByTimestamp(_, _)
InsertByTimestamp(sorted, c) ==
    IF sorted = << >> THEN << c >>
    ELSE IF c.unixTimestamp < sorted[1].unixTimestamp THEN << c >> \o sorted
    ELSE << sorted[1] >> \o InsertByTimestamp(Tail(sorted), c)

\* mutant of SortByTimestamp: the .sort call left out
NoSort(s) == s

RECURSIVE SortByTimestamp(_)
SortByTimestamp(s) ==
    IF s = << >> THEN << >>
    ELSE InsertByTimestamp(SortByTimestamp(SubSeq(s, 1, Len(s) - 1)), s[Len(s)])

\* new Date(parseInt(timestampStr) * 1000).toISOString() throws a RangeError on
\* the key "NaN": the exact branch then returns nothing
EmitThrows(cands) == \E k \in 1..Len(cands) : ~IsNum(cands[k].key)

EmitExact(cands) ==
    LET entries == OwnPropertyOrder(cands)
        mapped == [k \in 1..Len(entries) |->
                     [unixTimestamp |-> Val(ParseInt(ToString(Val(entries[k].key)))),
                      open |-> ToString(entries[k].open),
                      high |-> ToString(entries[k].high),
                      low |-> ToString(entries[k].low),
                      close |-> ToString(entries[k].close),
                      volume |-> ToString(entries[k].volume)]]
    IN  SortByTimestamp(mapped)

EmitApprox(cands) ==
    LET values == OwnPropertyOrder(cands)
        mapped == [k \in 1..Len(values) |->
                     [unixTimestamp |-> Val(values[k].key),
                      open |-> values[k].open, high |-> values[k].high,
                      low |-> values[k].low, close |-> values[k].close,
                      volume |-> values[k].volume]]
    IN  SortByTimestamp(mapped)

\* the loop of the exact branch run over a whole array
RECURSIVE FoldAllExact(_, _)
FoldAllExact(recs, tf) ==
    IF recs = << >> THEN << >>
    ELSE FoldExact(FoldAllExact(SubSeq(recs, 1, Len(recs) - 1), tf), recs[Len(recs)], tf)

\* the loop of the approximate branch run over a whole array
RECURSIVE FoldAllApprox(_, _)
FoldAllApprox(recs, tf) ==
    IF recs = << >> THEN << >>
    ELSE FoldApprox(FoldAllApprox(SubSeq(recs, 1, Len(recs) - 1), tf), recs[Len(recs)], tf)

\* ---- the rows of candle_data.csv handed to aggregateCandleData
Txt0 == <<"0">>
Txt5 == <<"5">>
Txt7 == <<"7">>
Txt30 == <<"3", "0">>
Txt90 == <<"9", "0">>
TxtNeg30 == <<"-", "3", "0">>
Txt70 == <<"7", "0">>
Txt80 == <<"8", "0">>
Txt95 == <<"9", "5">>
Txt100 == <<"1", "0", "0">>
Txt105 == <<"1", "0", "5">>
Txt110 == <<"1", "1", "0">>
Txt120 == <<"1", "2", "0">>
Txt130 == <<"1", "3", "0">>
Txt140 == <<"1", "4", "0">>
TxtAbc == <<"a", "b", "c">>
TxtEmpty == << >>

Row(ts, o, c, h, l, v) ==
    [UnixTimestamp |-> ts, Open |-> o, Close |-> c, High |-> h, Low |-> l, tVol |-> v]

\* well-formed ticks as the collector writes them (tVol a number or 'Error')
TickA == Row(Txt0, Txt100, Txt110, Txt120, Txt90, Txt5)
TickB == Row(Txt30, Txt110, Txt95, Txt130, Txt80, Txt5)
TickC == Row(Txt90, Txt95, Txt105, Txt105, Txt95, Txt5)
TickNoVol == Row(Txt30, Txt120, Txt100, Txt140, Txt70, ErrorText)
TickNeg == Row(TxtNeg30, Txt100, Txt110, Txt120, Txt90, Txt7)
\* a tick whose own low lies above its high (the contract's values are not validated)
TickCrossed == Row(Txt0, Txt100, Txt110, Txt90, Txt95, Txt5)
\* rows of a hand-edited file
RowBadTime == Row(TxtAbc, Txt100, Txt110, Txt120, Txt90, Txt5)
RowEmptyOpen == Row(Txt30, TxtEmpty, Txt110, Txt120, Txt90, Txt5)
RowBadOpen == Row(Txt90, TxtAbc, Txt110, Txt120, Txt90, Txt5)

RowPool == {TickA, TickB, TickC, TickNoVol, TickNeg, TickCrossed,
            RowBadTime, RowEmptyOpen, RowBadOpen}

\* two of the timeframeMap widths: '1m' and '5m'
Timeframes == {60, 300}

InitAggregate ==
    /\ records \in UNION {[1..n -> RowPool] : n \in 0..MaxRecords}
    /\ timeframeInSeconds \in Timeframes
    /\ outputAsString \in BOOLEAN
    /\ recIdx = 1
    /\ aggregatedCandles = << >>
    /\ aggPc = "loop"
    /\ candleData = << >>
    /\ fetchPc = "idle"
    /\ totalTx = 0
    /\ i = 0
    /\ curTimestamp = 0
    /\ curCandle = Undefined
    /\ tVolData = << >>
    /\ allCandleData = << >>
    /\ cumulativeTotalVolume = 0
    /\ currentDay = Undefined
    /\ currentDayCumulativeVolume = 0
    /\ dailyVolumeMap = [d \in {} |-> 0]
    /\ csvFile = Undefined
    /\ issued = << >>
    /\ pending = {}
    /\ calls = << >>
    /\ argRecords = records
    /\ candleCsv = Undefined
    /\ endpoint = ""
    /\ timeframe = ""
    /\ format = ""
    /\ res = Undefined
    /\ trace = << >>
    /\ allEvents = << >>
    /\ evIdx = 1
    /\ blockTimestampCache = [b \in {} |-> 0]
    /\ eventRecords = << >>
    /\ getBlockCalls = << >>
    /\ warnedBlocks = {}
    /\ eventsCsv = Undefined

\* one iteration of `for (const record of records)` in the selected branch
AggregateRecord ==
    /\ aggPc = "loop"
    /\ recIdx <= Len(records)
    /\ aggregatedCandles' =
          IF outputAsString
          THEN FoldExact(aggregatedCandles, records[recIdx], timeframeInSeconds)
          ELSE FoldApprox(aggregatedCandles, records[recIdx], timeframeInSeconds)
    /\ recIdx' = recIdx + 1
    /\ UNCHANGED << records, timeframeInSeconds, outputAsString, aggPc, candleData >>
    /\ UNCHANGED << fetchVars, otherVars >>

\* the return statement of the selected branch
AggregateReturn ==
    /\ aggPc = "loop"
    /\ recIdx > Len(records)
    /\ ~(outputAsString /\ EmitThrows(aggregatedCandles))
    /\ candleData' = IF outputAsString THEN EmitExact(aggregatedCandles)
                                       ELSE EmitApprox(aggregatedCandles)
    /\ aggPc' = "done"
    /\ UNCHANGED << records, timeframeInSeconds, outputAsString, recIdx, aggregatedCandles >>
    /\ UNCHANGED << fetchVars, otherVars >>

\* the exact branch's .map callback throws on the key "NaN"; nothing is returned
AggregateThrows ==
    /\ aggPc = "loop"
    /\ recIdx > Len(records)
    /\ outputAsString /\ EmitThrows(aggregatedCandles)
    /\ aggPc' = "thrown"
    /\ UNCHANGED << records, timeframeInSeconds, outputAsString, recIdx, aggregatedCandles,
                    candleData >>
    /\ UNCHANGED << fetchVars, otherVars >>

NextAggregate == AggregateRecord \/ AggregateReturn \/ AggregateThrows

\* ---- aggregateCandleData called again and again, as the request handlers do
RepeatInputs ==
    {<< >>, << TickA >>, << TickA, TickB >>, << TickB, TickA >>, << TickNeg, TickA >>,
     << RowBadTime >>}

InitRepeat ==
    /\ records \in RepeatInputs
    /\ timeframeInSeconds = 60
    /\ outputAsString \in BOOLEAN
    /\ recIdx = 1
    /\ aggregatedCandles = << >>
    /\ aggPc = "loop"
    /\ candleData = << >>
    /\ fetchPc = "idle"
    /\ totalTx = 0
    /\ i = 0
    /\ curTimestamp = 0
    /\ curCandle = Undefined
    /\ tVolData = << >>
    /\ allCandleData = << >>
    /\ cumulativeTotalVolume = 0
    /\ currentDay = Undefined
    /\ currentDayCumulativeVolume = 0
    /\ dailyVolumeMap = [d \in {} |-> 0]
    /\ csvFile = Undefined
    /\ issued = << >>
    /\ pending = {}
    /\ calls = << >>
    /\ argRecords = records
    /\ candleCsv = Undefined
    /\ endpoint = ""
    /\ timeframe = ""
    /\ format = ""
    /\ res = Undefined
    /\ trace = << >>
    /\ allEvents = << >>
    /\ evIdx = 1
    /\ blockTimestampCache = [b \in {} |-> 0]
    /\ eventRecords = << >>
    /\ getBlockCalls = << >>
    /\ warnedBlocks = {}
    /\ eventsCsv = Undefined

FinishedCall ==
    [records |-> argRecords, timeframeInSeconds |-> timeframeInSeconds,
     outputAsString |-> outputAsString, outcome |-> aggPc, candleData |-> candleData]

\* mutant of AggregateCalledAgain: aggregatedCandles lives outside the function
\* and is not emptied between calls
AggregateCalledAgainSharedMap ==
    /\ aggPc \in {"done", "thrown"}
    /\ Len(calls) + 1 < MaxCalls
    /\ calls' = Append(calls, FinishedCall)
    /\ \E r \in RepeatInputs, m \in BOOLEAN :
          /\ records' = r
          /\ argRecords' = r
          /\ outputAsString' = m
          /\ aggregatedCandles' = IF m = outputAsString THEN aggregatedCandles ELSE << >>
    /\ recIdx' = 1
    /\ aggPc' = "loop"
    /\ candleData' = << >>
    /\ UNCHANGED << timeframeInSeconds, fetchVars, httpVars, eventVars >>

\* the next call: `const aggregatedCandles = {}` is a fresh local object of the
\* branch taken, nothing of the previous call is read
AggregateCalledAgain ==
    /\ aggPc \in {"done", "thrown"}
    /\ Len(calls) + 1 < MaxCalls
    /\ calls' = Append(calls, FinishedCall)
    /\ \E r \in RepeatInputs, m \in BOOLEAN :
          /\ records' = r
          /\ argRecords' = r
          /\ outputAsString' = m
    /\ recIdx' = 1
    /\ aggregatedCandles' = << >>
    /\ aggPc' = "loop"
    /\ candleData' = << >>
    /\ UNCHANGED << timeframeInSeconds, fetchVars, httpVars, eventVars >>

NextRepeat == AggregateRecord \/ AggregateReturn \/ AggregateThrows \/ AggregateCalledAgain

\* ---------------------------------------------------------------- fetchData

\* ---- the request handlers of the HTTP server
\* Object.keys(timeframeMap): the own keys in the order they are written
TimeframeLabels ==
    << "1m", "5m", "15m", "30m", "45m", "1h", "2h", "3h", "4h", "5h", "6h", "12h", "15h",
       "18h", "1d" >>

TimeframeSeconds ==
    << 60, 300, 900, 1800, 2700, 3600, 7200, 10800, 14400, 18000, 21600, 43200, 54000,
       64800, 86400 >>

IsOwnLabel(label) == \E k \in 1..Len(TimeframeLabels) : TimeframeLabels[k] = label

\* names every object literal inherits from Object.prototype
ObjectPrototypeKeys == {"constructor", "toString", "valueOf", "hasOwnProperty", "__proto__"}

\* timeframeMap[timeframe]: an own property gives its number, an inherited one
\* gives a function or an object of Object.prototype, anything else undefined
TimeframeLookup(label) ==
    IF IsOwnLabel(label)
    THEN [kind |-> "number",
          value |-> TimeframeSeconds[CHOOSE k \in 1..Len(TimeframeLabels) :
                                         TimeframeLabels[k] = label]]
    ELSE IF label \in ObjectPrototypeKeys THEN [kind |-> "inherited", value |-> 0]
    ELSE [kind |-> "undefined", value |-> 0]

\* the truthiness `if (!timeframeInSeconds)` tests
Truthy(v) == v.kind = "inherited" \/ (v.kind = "number" /\ v.value # 0)

\* the value as the arithmetic of aggregateCandleData reads it
ToNumber(v) == IF v.kind = "number" THEN Num(v.value) ELSE NaN

\* records.sort((a, b) => parseInt(a['Unix Timestamp']) - parseInt(b['Unix Timestamp']))
RECURSIVE InsertRecord(_, _)
InsertRecord(sorted, r) ==
    IF sorted = << >> THEN << r >>
    ELSE IF Val(ParseInt(r.UnixTimestamp)) < Val(ParseInt(sorted[1].UnixTimestamp))
         THEN << r >> \o sorted
    ELSE << sorted[1] >> \o InsertRecord(Tail(sorted), r)

RECURSIVE SortRecords(_)
SortRecords(s) ==
    IF s = << >> THEN << >>
    ELSE InsertRecord(SortRecords(SubSeq(s, 1, Len(s) - 1)), s[Len(s)])

\* getCandleRecords(): the sorted rows, or the thrown 'Could not process CSV file.'
GetCandleRecords(csv) == IF csv = Undefined THEN NaN ELSE Num(SortRecords(Val(csv)))

\* the record passes the checks of the branch and is given a bucket
AcceptedExact(r) ==
    /\ IsNum(ToBigInt(r.Open)) /\ IsNum(ToBigInt(r.High)) /\ IsNum(ToBigInt(r.Low))
    /\ IsNum(ToBigInt(r.Close)) /\ IsNum(ToBigInt(r.tVol))

AcceptedApprox(r) ==
    /\ IsNum(ParseInt(r.UnixTimestamp))
    /\ IsNum(ParseFloat(r.Open)) /\ IsNum(ParseFloat(r.High)) /\ IsNum(ParseFloat(r.Low))
    /\ IsNum(ParseFloat(r.Close)) /\ IsNum(ParseFloat(r.tVol))

\* aggregateCandleData(records, timeframeInSeconds, outputAsString) as one call:
\* the candles returned, or NaN when the call throws. With a width that is not a
\* number every bucketTimestamp is NaN, and toISOString throws for the first
\* record given a bucket (inside the loop, or in .map of the exact branch)
AggregateCandleData(recs, width, asString) ==
    IF ~IsNum(width)
    THEN IF \E k \in 1..Len(recs) :
               IF asString THEN AcceptedExact(recs[k]) ELSE AcceptedApprox(recs[k])
         THEN NaN ELSE Num(<< >>)
    ELSE IF asString
    THEN IF EmitThrows(FoldAllExact(recs, Val(width))) THEN NaN
         ELSE Num(EmitExact(FoldAllExact(recs, Val(width))))
    ELSE Num(EmitApprox(FoldAllApprox(recs, Val(width))))

\* what each route puts into the response for one candle
FullCandle(c) == c
OhlcOnly(c) ==
    [unixTimestamp |-> c.unixTimestamp, open |-> c.open, high |-> c.high, low |-> c.low,
     close |-> c.close]
VolumeOnly(c) == [unixTimestamp |-> c.unixTimestamp, volume |-> c.volume]

\* the three routes: the error text of the 400 answer, the body of the 200
\* answer and the text of the 500 answer
InvalidText(route) ==
    IF route = "/api/candles" THEN "Invalid timeframe specified." ELSE "Invalid timeframe."

Project(route, c) ==
    CASE route = "/api/candles" -> FullCandle(c)
      [] route = "/api/ohlc" -> OhlcOnly(c)
      [] route = "/api/volume" -> VolumeOnly(c)

FailText(route) ==
    CASE route = "/api/candles" -> "Error fetching candle data"
      [] route = "/api/ohlc" -> "Error fetching OHLC data"
      [] route = "/api/volume" -> "Error fetching volume data"

\* the requests sent to the server
LabelPool ==
    {TimeframeLabels[k] : k \in 1..Len(TimeframeLabels)} \cup ObjectPrototypeKeys
        \cup {"2m", "1M", "60"}
FormatPool == {"string", "number"}

\* candle_data.csv: missing, header only, or some rows
CsvPool ==
    {Undefined, Num(<< >>), Num(<< TickA >>), Num(<< TickB, TickA >>),
     Num(<< TickC, TickA, TickB >>), Num(<< TickNoVol >>)}

InitServe ==
    /\ candleCsv \in CsvPool
    /\ endpoint = ""
    /\ timeframe = ""
    /\ format = ""
    /\ res = Undefined
    /\ trace = << >>
    /\ allEvents = << >>
    /\ evIdx = 1
    /\ blockTimestampCache = [b \in {} |-> 0]
    /\ eventRecords = << >>
    /\ getBlockCalls = << >>
    /\ warnedBlocks = {}
    /\ eventsCsv = Undefined
    /\ records = << >>
    /\ timeframeInSeconds = 60
    /\ outputAsString = FALSE
    /\ recIdx = 1
    /\ aggregatedCandles = << >>
    /\ aggPc = "idle"
    /\ candleData = << >>
    /\ fetchPc = "idle"
    /\ totalTx = 0
    /\ i = 0
    /\ curTimestamp = 0
    /\ curCandle = Undefined
    /\ tVolData = << >>
    /\ allCandleData = << >>
    /\ cumulativeTotalVolume = 0
    /\ currentDay = Undefined
    /\ currentDayCumulativeVolume = 0
    /\ dailyVolumeMap = [d \in {} |-> 0]
    /\ csvFile = Undefined
    /\ issued = << >>
    /\ pending = {}
    /\ calls = << >>
    /\ argRecords = << >>

\* what a handler does with one request: the 400 branch, or getCandleRecords,
\* aggregateCandleData and res.json inside the try, or the catch with 500
Handle(route, label, fmt) ==
    IF ~Truthy(TimeframeLookup(label))
    THEN [res |-> Num([status |-> 400,
                       body |-> [error |-> InvalidText(route),
                                 availableTimeframes |-> TimeframeLabels]]),
          trace |-> << >>]
    ELSE IF ~IsNum(GetCandleRecords(candleCsv))
    THEN [res |-> Num([status |-> 500, body |-> FailText(route)]),
          trace |-> << "getCandleRecords" >>]
    ELSE LET data == AggregateCandleData(Val(GetCandleRecords(candleCsv)),
                                         ToNumber(TimeframeLookup(label)), fmt = "string")
         IN  [res |-> IF IsNum(data)
                      THEN Num([status |-> 200,
                                body |-> [k \in 1..Len(Val(data)) |-> Project(route, Val(data)[k])]])
                      ELSE Num([status |-> 500, body |-> FailText(route)]),
              trace |-> << "getCandleRecords", "aggregateCandleData" >>]

\* app.get('/api/candles/:timeframe', ...)
GetCandles ==
    /\ \E label \in LabelPool, fmt \in FormatPool :
          /\ endpoint' = "/api/candles"
          /\ timeframe' = label
          /\ format' = fmt
          /\ res' = Handle("/api/candles", label, fmt).res
          /\ trace' = Handle("/api/candles", label, fmt).trace
    /\ UNCHANGED << candleCsv, aggVars, fetchVars, repeatVars, eventVars >>

\* app.get('/api/ohlc/:timeframe', ...)
GetOhlc ==
    /\ \E label \in LabelPool, fmt \in FormatPool :
          /\ endpoint' = "/api/ohlc"
          /\ timeframe' = label
          /\ format' = fmt
          /\ res' = Handle("/api/ohlc", label, fmt).res
          /\ trace' = Handle("/api/ohlc", label, fmt).trace
    /\ UNCHANGED << candleCsv, aggVars, fetchVars, repeatVars, eventVars >>

\* app.get('/api/volume/:timeframe', ...)
GetVolume ==
    /\ \E label \in LabelPool, fmt \in FormatPool :
          /\ endpoint' = "/api/volume"
          /\ timeframe' = label
          /\ format' = fmt
          /\ res' = Handle("/api/volume", label, fmt).res
          /\ trace' = Handle("/api/volume", label, fmt).trace
    /\ UNCHANGED << candleCsv, aggVars, fetchVars, repeatVars, eventVars >>

NextServe == GetCandles \/ GetOhlc \/ GetVolume

\* ---- downloadAllEvents of Liquidity/getHistory.ts: the second loop
\* the block numbers read from the CSV and the timestamp the chain holds for each
BlockNumbers == {1, 2}
BlockTime(b) == 1700000000 + 12 * b

\* the events of the sorted block numbers, block after block; an event the ABI
\* could not decode has no eventName and no args
EventPool == [blockNumber : BlockNumbers, decoded : BOOLEAN]

InitEvents ==
    /\ allEvents \in UNION {[1..n -> EventPool] : n \in 0..MaxEvents}
    /\ \A k \in 1..(Len(allEvents) - 1) :
          allEvents[k].blockNumber <= allEvents[k + 1].blockNumber
    /\ evIdx = 1
    /\ blockTimestampCache = [b \in {} |-> 0]
    /\ eventRecords = << >>
    /\ getBlockCalls = << >>
    /\ warnedBlocks = {}
    /\ eventsCsv = Undefined
    /\ candleCsv = Undefined
    /\ endpoint = ""
    /\ timeframe = ""
    /\ format = ""
    /\ res = Undefined
    /\ trace = << >>
    /\ records = << >>
    /\ timeframeInSeconds = 60
    /\ outputAsString = FALSE
    /\ recIdx = 1
    /\ aggregatedCandles = << >>
    /\ aggPc = "idle"
    /\ candleData = << >>
    /\ fetchPc = "idle"
    /\ totalTx = 0
    /\ i = 0
    /\ curTimestamp = 0
    /\ curCandle = Undefined
    /\ tVolData = << >>
    /\ allCandleData = << >>
    /\ cumulativeTotalVolume = 0
    /\ currentDay = Undefined
    /\ currentDayCumulativeVolume = 0
    /\ dailyVolumeMap = [d \in {} |-> 0]
    /\ csvFile = Undefined
    /\ issued = << >>
    /\ pending = {}
    /\ calls = << >>
    /\ argRecords = << >>

\* !blockTimestampCache[event.blockNumber]: no entry yet, or an entry of 0
CacheMiss(cache, b) == IF b \in DOMAIN cache THEN cache[b] = 0 ELSE TRUE

CachePut(cache, b, ts) == [x \in (DOMAIN cache) \cup {b} |-> IF x = b THEN ts ELSE cache[x]]

\* records.push({timestamp: new Date(timestamp * 1000).toISOString(), blockNumber, ...}):
\* the ISO text is held as the second it is written from
PushRecord(ts) ==
    /\ eventRecords' = Append(eventRecords, [timestamp |-> ts,
                                             blockNumber |-> allEvents[evIdx].blockNumber])
    /\ evIdx' = evIdx + 1

\* an event without eventName or args: continue
SkipEvent ==
    /\ evIdx <= Len(allEvents)
    /\ ~allEvents[evIdx].decoded
    /\ evIdx' = evIdx + 1
    /\ UNCHANGED << allEvents, blockTimestampCache, eventRecords, getBlockCalls,
                    warnedBlocks, eventsCsv >>
    /\ UNCHANGED << aggVars, fetchVars, repeatVars, httpVars >>

\* the cache holds a non-zero timestamp for the block: no call is made
UseCachedTimestamp ==
    /\ evIdx <= Len(allEvents)
    /\ allEvents[evIdx].decoded
    /\ ~CacheMiss(blockTimestampCache, allEvents[evIdx].blockNumber)
    /\ PushRecord(blockTimestampCache[allEvents[evIdx].blockNumber])
    /\ UNCHANGED << allEvents, blockTimestampCache, getBlockCalls, warnedBlocks, eventsCsv >>
    /\ UNCHANGED << aggVars, fetchVars, repeatVars, httpVars >>

\* await provider.getBlock(event.blockNumber) resolves with the block or with
\* null: blockTimestampCache[...] = block?.timestamp ?? 0
GetBlockResolves ==
    /\ evIdx <= Len(allEvents)
    /\ allEvents[evIdx].decoded
    /\ CacheMiss(blockTimestampCache, allEvents[evIdx].blockNumber)
    /\ \E ts \in {BlockTime(allEvents[evIdx].blockNumber), 0} :
          /\ blockTimestampCache' =
                CachePut(blockTimestampCache, allEvents[evIdx].blockNumber, ts)
          /\ PushRecord(ts)
    /\ getBlockCalls' = Append(getBlockCalls, allEvents[evIdx].blockNumber)
    /\ UNCHANGED << allEvents, warnedBlocks, eventsCsv >>
    /\ UNCHANGED << aggVars, fetchVars, repeatVars, httpVars >>

\* await provider.getBlock(event.blockNumber) rejects: the catch warns and caches 0
GetBlockFails ==
    /\ evIdx <= Len(allEvents)
    /\ allEvents[evIdx].decoded
    /\ CacheMiss(blockTimestampCache, allEvents[evIdx].blockNumber)
    /\ blockTimestampCache' = CachePut(blockTimestampCache, allEvents[evIdx].blockNumber, 0)
    /\ PushRecord(0)
    /\ getBlockCalls' = Append(getBlockCalls, allEvents[evIdx].blockNumber)
    /\ warnedBlocks' = warnedBlocks \cup {allEvents[evIdx].blockNumber}
    /\ UNCHANGED << allEvents, eventsCsv >>
    /\ UNCHANGED << aggVars, fetchVars, repeatVars, httpVars >>

\* await csvWriter.writeRecords(records) after the loop
WriteRecords ==
    /\ evIdx > Len(allEvents)
    /\ eventsCsv = Undefined
    /\ eventsCsv' = Num(eventRecords)
    /\ UNCHANGED << allEvents, evIdx, blockTimestampCache, eventRecords, getBlockCalls,
                    warnedBlocks >>
    /\ UNCHANGED << aggVars, fetchVars, repeatVars, httpVars >>

NextEvents ==
    \/ SkipEvent
    \/ UseCachedTimestamp
    \/ GetBlockResolves
    \/ GetBlockFails
    \/ WriteRecords

\* what the contract may answer
TimestampPool == {0, 86399, 86400, 172800}
VolumePool == {0, 3, 5}
CandlePool == {[open |-> 100, close |-> 110, high |-> 120, low |-> 90]}

\* new Date(timestamp * 1000).toISOString().substring(0, 10): the calendar day
\* in UTC, held as the number of whole days since the epoch
UtcDate(ts) == ts \div 86400

\* mutant of UpdateCumulative: the all-time total is reset with the day
UpdateCumulativeResetsTotal(run, utcDate, tVol) ==
    LET changed == run.currentDay = << >> \/ run.currentDay # Num(utcDate)
    IN  [currentDay |-> Num(utcDate),
         currentDayCumulativeVolume |->
             (IF changed THEN 0 ELSE run.currentDayCumulativeVolume) + Val(ToBigInt(tVol)),
         cumulativeTotalVolume |->
             (IF changed THEN 0 ELSE run.cumulativeTotalVolume) + Val(ToBigInt(tVol))]

\* the running totals (currentDay, currentDayCumulativeVolume, cumulativeTotalVolume)
\* after the statements that follow a successful tVol lookup inside the try block
UpdateCumulative(run, utcDate, tVol) ==
    LET dayVolume == IF run.currentDay = Undefined \/ run.currentDay # Num(utcDate)
                     THEN 0 ELSE run.currentDayCumulativeVolume
    IN  [currentDay |-> Num(utcDate),
         currentDayCumulativeVolume |-> dayVolume + Val(ToBigInt(tVol)),
         cumulativeTotalVolume |-> run.cumulativeTotalVolume + Val(ToBigInt(tVol))]

\* one step of `for (const data of tVolData)` building dailyVolumeMap
DailyVolumeStep(map, data) ==
    IF data.tVol # ErrorText
    THEN LET currentDailyVolume == IF data.utcDate \in DOMAIN map THEN map[data.utcDate] ELSE 0
         IN  [d \in (DOMAIN map) \cup {data.utcDate} |->
                 IF d = data.utcDate THEN currentDailyVolume + Val(ToBigInt(data.tVol))
                 ELSE map[d]]
    ELSE map

RECURSIVE BuildDailyVolumeMap(_)
BuildDailyVolumeMap(data) ==
    IF data = << >> THEN [d \in {} |-> 0]
    ELSE DailyVolumeStep(BuildDailyVolumeMap(SubSeq(data, 1, Len(data) - 1)), data[Len(data)])

\* mutant of WithDailyTotals: the column is filled from the running daily total
WithRunningDailyTotals(rows, map) ==
    [k \in 1..Len(rows) |->
        [rows[k] EXCEPT !.dailyTotalVolume = rows[k].cumulativeDailyVolume]]

\* allCandleData[i][10] = dailyVolumeMap.get(utcDate)?.toString() || '0'
WithDailyTotals(rows, map) ==
    [k \in 1..Len(rows) |->
        [rows[k] EXCEPT !.dailyTotalVolume =
            IF rows[k].utcDate \in DOMAIN map THEN ToString(map[rows[k].utcDate]) ELSE Txt0]]

\* a call made on the contract: its method and the loop index it is made for
CallOf(kind, idx) == [kind |-> kind, index |-> idx]

\* the call fetchData is suspended on at each await
CurrentCall == CallOf(fetchPc, IF fetchPc = "totalTx" THEN 0 ELSE i)

\* mutant of NextCall: the volume is looked up before the candle
NextCallVolumeFirst(call, n) ==
    CASE call.kind = "totalTx" -> IF 1 <= n THEN {CallOf("txTimeStamp", 1)} ELSE {}
      [] call.kind = "txTimeStamp" -> {CallOf("tVol", call.index)}
      [] call.kind = "tVol" -> {CallOf("candleStickData", call.index)}
      [] call.kind = "candleStickData" ->
            IF call.index + 1 <= n THEN {CallOf("txTimeStamp", call.index + 1)} ELSE {}

\* the call the code makes next once `call` has settled, in a pass of n ticks:
\* txTimeStamp(i), candleStickData(timestamp), tVol(timestamp) for i = 1..n
NextCall(call, n) ==
    CASE call.kind = "totalTx" -> IF 1 <= n THEN {CallOf("txTimeStamp", 1)} ELSE {}
      [] call.kind = "txTimeStamp" -> {CallOf("candleStickData", call.index)}
      [] call.kind = "candleStickData" -> {CallOf("tVol", call.index)}
      [] call.kind = "tVol" ->
            IF call.index + 1 <= n THEN {CallOf("txTimeStamp", call.index + 1)} ELSE {}

\* `await` returns for CurrentCall and the code runs on to its next call
Proceed(n) ==
    /\ CurrentCall \in pending
    /\ pending' = (pending \ {CurrentCall}) \cup NextCall(CurrentCall, n)
    /\ issued' = IF NextCall(CurrentCall, n) = {} THEN issued
                 ELSE Append(issued, CHOOSE c \in NextCall(CurrentCall, n) : TRUE)

InitFetch ==
    /\ fetchPc = "totalTx"
    /\ totalTx = 0
    /\ i = 0
    /\ curTimestamp = 0
    /\ curCandle = Undefined
    /\ tVolData = << >>
    /\ allCandleData = << >>
    /\ cumulativeTotalVolume = 0
    /\ currentDay = Undefined
    /\ currentDayCumulativeVolume = 0
    /\ dailyVolumeMap = [d \in {} |-> 0]
    /\ csvFile = Undefined
    /\ issued = << CallOf("totalTx", 0) >>
    /\ pending = {CallOf("totalTx", 0)}
    /\ records = << >>
    /\ timeframeInSeconds = 60
    /\ outputAsString = FALSE
    /\ recIdx = 1
    /\ aggregatedCandles = << >>
    /\ aggPc = "idle"
    /\ candleData = << >>
    /\ calls = << >>
    /\ argRecords = << >>
    /\ candleCsv = Undefined
    /\ endpoint = ""
    /\ timeframe = ""
    /\ format = ""
    /\ res = Undefined
    /\ trace = << >>
    /\ allEvents = << >>
    /\ evIdx = 1
    /\ blockTimestampCache = [b \in {} |-> 0]
    /\ eventRecords = << >>
    /\ getBlockCalls = << >>
    /\ warnedBlocks = {}
    /\ eventsCsv = Undefined

\* the code between the end of the for loop and the call of stringify
Finish(rows, data) ==
    /\ dailyVolumeMap' = BuildDailyVolumeMap(data)
    /\ allCandleData' = WithDailyTotals(rows, BuildDailyVolumeMap(data))
    /\ fetchPc' = "stringify"

\* await contract.totalTx() resolves
FetchTotalTx ==
    /\ fetchPc = "totalTx"
    /\ \E n \in 0..MaxTx :
          /\ totalTx' = n
          /\ Proceed(n)
          /\ IF n >= 1
             THEN /\ i' = 1
                  /\ fetchPc' = "txTimeStamp"
                  /\ UNCHANGED << allCandleData, dailyVolumeMap >>
             ELSE /\ i' = 1
                  /\ Finish(allCandleData, tVolData)
    /\ UNCHANGED << curTimestamp, curCandle, tVolData, cumulativeTotalVolume, currentDay,
                    currentDayCumulativeVolume, csvFile >>
    /\ UNCHANGED << aggVars, otherVars >>

\* await contract.txTimeStamp(i) resolves
FetchTxTimeStamp ==
    /\ fetchPc = "txTimeStamp"
    /\ \E ts \in TimestampPool : curTimestamp' = ts
    /\ fetchPc' = "candleStickData"
    /\ Proceed(totalTx)
    /\ UNCHANGED << totalTx, i, curCandle, tVolData, allCandleData, cumulativeTotalVolume,
                    currentDay, currentDayCumulativeVolume, dailyVolumeMap, csvFile >>
    /\ UNCHANGED << aggVars, otherVars >>

\* await contract.candleStickData(timestamp) resolves
FetchCandleStickData ==
    /\ fetchPc = "candleStickData"
    /\ \E c \in CandlePool :
          curCandle' = Num([open |-> ToString(c.open), close |-> ToString(c.close),
                         high |-> ToString(c.high), low |-> ToString(c.low)])
    /\ fetchPc' = "tVol"
    /\ Proceed(totalTx)
    /\ UNCHANGED << totalTx, i, curTimestamp, tVolData, allCandleData, cumulativeTotalVolume,
                    currentDay, currentDayCumulativeVolume, dailyVolumeMap, csvFile >>
    /\ UNCHANGED << aggVars, otherVars >>

\* mutant of StructuralFetchFails: the rows collected so far are written out
StructuralFetchFailsWritesPartial ==
    /\ fetchPc \in {"totalTx", "txTimeStamp", "candleStickData"}
    /\ CurrentCall \in pending
    /\ pending' = pending \ {CurrentCall}
    /\ Finish(allCandleData, tVolData)
    /\ UNCHANGED issued
    /\ UNCHANGED << totalTx, i, curTimestamp, curCandle, tVolData,
                    cumulativeTotalVolume, currentDay, currentDayCumulativeVolume, csvFile >>
    /\ UNCHANGED << aggVars, otherVars >>

\* a rejected structural fetch (totalTx, txTimeStamp, candleStickData) lands in the
\* outer catch: nothing more is fetched and stringify is never called
StructuralFetchFails ==
    /\ fetchPc \in {"totalTx", "txTimeStamp", "candleStickData"}
    /\ fetchPc' = "aborted"
    /\ CurrentCall \in pending
    /\ pending' = pending \ {CurrentCall}
    /\ UNCHANGED issued
    /\ UNCHANGED << totalTx, i, curTimestamp, curCandle, tVolData, allCandleData,
                    cumulativeTotalVolume, currentDay, currentDayCumulativeVolume,
                    dailyVolumeMap, csvFile >>
    /\ UNCHANGED << aggVars, otherVars >>

\* the two pushes after the inner try/catch, then i++ and either the next
\* iteration or the code after the loop
RecordTick(tVol, run) ==
    LET data == [Timestamp |-> curTimestamp, tVol |-> tVol, utcDate |-> UtcDate(curTimestamp),
                 cumulativeDailyVolume |-> ToString(run.currentDayCumulativeVolume),
                 cumulativeTotalVolume |-> ToString(run.cumulativeTotalVolume)]
        row == [totalTx |-> totalTx, index |-> i, timestamp |-> curTimestamp,
                open |-> Val(curCandle).open, close |-> Val(curCandle).close,
                high |-> Val(curCandle).high, low |-> Val(curCandle).low,
                tVol |-> tVol, utcDate |-> UtcDate(curTimestamp),
                dailyTotalVolume |-> TxtEmpty,
                cumulativeDailyVolume |-> ToString(run.currentDayCumulativeVolume),
                cumulativeTotalVolume |-> ToString(run.cumulativeTotalVolume)]
    IN  /\ currentDay' = run.currentDay
        /\ currentDayCumulativeVolume' = run.currentDayCumulativeVolume
        /\ cumulativeTotalVolume' = run.cumulativeTotalVolume
        /\ tVolData' = Append(tVolData, data)
        /\ i' = i + 1
        /\ Proceed(totalTx)
        /\ IF i + 1 <= totalTx
           THEN /\ allCandleData' = Append(allCandleData, row)
                /\ fetchPc' = "txTimeStamp"
                /\ UNCHANGED dailyVolumeMap
           ELSE Finish(Append(allCandleData, row), Append(tVolData, data))
        /\ UNCHANGED << totalTx, curTimestamp, curCandle, csvFile >>
        /\ UNCHANGED << aggVars, otherVars >>

Running ==
    [currentDay |-> currentDay, currentDayCumulativeVolume |-> currentDayCumulativeVolume,
     cumulativeTotalVolume |-> cumulativeTotalVolume]

\* await tVolContract.tVol(timestamp) resolves
FetchTVol ==
    /\ fetchPc = "tVol"
    /\ \E volume \in VolumePool :
          RecordTick(ToString(volume),
                     UpdateCumulative(Running, UtcDate(curTimestamp), ToString(volume)))

\* mutant of TVolFails: the rejection is not caught inside the loop
TVolFailsAborts ==
    /\ fetchPc = "tVol"
    /\ fetchPc' = "aborted"
    /\ CurrentCall \in pending
    /\ pending' = pending \ {CurrentCall}
    /\ UNCHANGED issued
    /\ UNCHANGED << totalTx, i, curTimestamp, curCandle, tVolData, allCandleData,
                    cumulativeTotalVolume, currentDay, currentDayCumulativeVolume,
                    dailyVolumeMap, csvFile >>
    /\ UNCHANGED << aggVars, otherVars >>

\* await tVolContract.tVol(timestamp) rejects: tVol stays 'Error', the catch logs
TVolFails ==
    /\ fetchPc = "tVol"
    /\ RecordTick(ErrorText, Running)

\* the stringify callback without err: fs.writeFileSync('candle_data.csv', output)
StringifyCallback ==
    /\ fetchPc = "stringify"
    /\ csvFile' = Num(allCandleData)
    /\ fetchPc' = "written"
    /\ UNCHANGED << totalTx, i, curTimestamp, curCandle, tVolData, allCandleData,
                    cumulativeTotalVolume, currentDay, currentDayCumulativeVolume,
                    dailyVolumeMap, issued, pending >>
    /\ UNCHANGED << aggVars, otherVars >>

\* the stringify callback with err: the error is logged, no file is written
StringifyFails ==
    /\ fetchPc = "stringify"
    /\ fetchPc' = "csvError"
    /\ UNCHANGED << totalTx, i, curTimestamp, curCandle, tVolData, allCandleData,
                    cumulativeTotalVolume, currentDay, currentDayCumulativeVolume,
                    dailyVolumeMap, csvFile, issued, pending >>
    /\ UNCHANGED << aggVars, otherVars >>

NextFetch ==
    \/ FetchTotalTx
    \/ FetchTxTimeStamp
    \/ FetchCandleStickData
    \/ StructuralFetchFails
    \/ FetchTVol
    \/ TVolFails
    \/ StringifyCallback
    \/ StringifyFails

\* ------------------------------------------------------------ specifications
\* a call of aggregateCandleData
SpecAggregate == InitAggregate /\ [][NextAggregate]_vars

\* a run of the collector script
SpecFetch == InitFetch /\ [][NextFetch]_vars

\* aggregateCandleData called MaxCalls times in a row
SpecRepeat == InitRepeat /\ [][NextRepeat]_vars

\* the HTTP server answering requests
SpecServe == InitServe /\ [][NextServe]_vars

\* the second loop of downloadAllEvents and the write that follows it
SpecEvents == InitEvents /\ [][NextEvents]_vars

Init == InitAggregate \/ InitFetch \/ InitRepeat \/ InitServe \/ InitEvents
Next == NextAggregate \/ NextFetch \/ AggregateCalledAgain \/ NextServe \/ NextEvents
Spec == Init /\ [][Next]_vars

\* ------------------------------------------------- properties: aggregation
\* a decimal integer written the way toString writes it
Canonical(text) == IsNum(ToBigInt(text)) /\ ToString(Val(ToBigInt(text))) = text
CanonicalNat(text) == Canonical(text) /\ Val(ToBigInt(text)) >= 0

\* a Tick of the data model: integer timestamp, non-negative integer prices, and
\* a volume that is a non-negative integer or the unavailable marker
IsTick(r) ==
    /\ Canonical(r.UnixTimestamp)
    /\ CanonicalNat(r.Open) /\ CanonicalNat(r.Close)
    /\ CanonicalNat(r.High) /\ CanonicalNat(r.Low)
    /\ (r.tVol = ErrorText \/ CanonicalNat(r.tVol))

AllTicks == \A k \in 1..Len(records) : IsTick(records[k])
VolumeAvailable(r) == r.tVol # ErrorText
TickVolume(r) == IF VolumeAvailable(r) THEN Val(ToBigInt(r.tVol)) ELSE 0
Price(text) == Val(ToBigInt(text))
BucketStart(r) ==
    (Val(ToBigInt(r.UnixTimestamp)) \div timeframeInSeconds) * timeframeInSeconds

RECURSIVE SumVolumes(_)
SumVolumes(ticks) ==
    IF ticks = << >> THEN 0 ELSE TickVolume(ticks[1]) + SumVolumes(Tail(ticks))

Highest(S) == CHOOSE x \in S : \A y \in S : y <= x
Lowest(S) == CHOOSE x \in S : \A y \in S : x <= y

\* a number as the selected mode returns it: decimal text or a native number
Render(n) == IF outputAsString THEN ToString(n) ELSE n
CandleNum(x) == IF outputAsString THEN Val(ToBigInt(x)) ELSE x

\* the candle the reduction rules give for the ticks `ticks` (in arrival order)
ExpectedCandle(b, ticks) ==
    [unixTimestamp |-> b,
     open |-> Render(Price(ticks[1].Open)),
     close |-> Render(Price(ticks[Len(ticks)].Close)),
     high |-> Render(Highest({Price(ticks[k].High) : k \in 1..Len(ticks)})),
     low |-> Render(Lowest({Price(ticks[k].Low) : k \in 1..Len(ticks)})),
     volume |-> Render(SumVolumes(ticks))]

TicksOfBucket(b) == SelectSeq(records, LAMBDA r : BucketStart(r) = b)
FoldedTicksOfBucket(b) ==
    SelectSeq(records, LAMBDA r : VolumeAvailable(r) /\ BucketStart(r) = b)

\* C1: a tick whose tVol is 'Error' is still folded into its bucket's candle
\* (open/high/low/close over all the bucket's ticks) and adds 0 to its volume
C1_UnavailableVolumeFolded ==
    (aggPc = "done" /\ AllTicks) =>
        \A k \in 1..Len(records) :
            ~VolumeAvailable(records[k]) =>
                \E j \in 1..Len(candleData) :
                    candleData[j] = ExpectedCandle(BucketStart(records[k]),
                                                   TicksOfBucket(BucketStart(records[k])))

\* C2: every returned candle is the reduction of the ticks folded into it: its
\* key is their common floor(timestamp / width) * width, open of the first,
\* close of the last, highest high, lowest low, summed volume
C2_CandleIsReductionOfFoldedTicks ==
    (aggPc = "done" /\ AllTicks) =>
        \A j \in 1..Len(candleData) :
            LET folded == FoldedTicksOfBucket(candleData[j].unixTimestamp)
            IN  /\ folded # << >>
                /\ candleData[j] = ExpectedCandle(candleData[j].unixTimestamp, folded)

\* C2 witness: scenario A (ticks at 0, 30, 90, width 60, volumes 5, 5, 5) gave
\* bucket 0 with volume 10 and bucket 60 with volume 5
C2_Witness ==
    /\ aggPc = "done"
    /\ records = << TickA, TickB, TickC >>
    /\ timeframeInSeconds = 60
    /\ Len(candleData) = 2
    /\ candleData[1].unixTimestamp = 0 /\ CandleNum(candleData[1].volume) = 10
    /\ candleData[2].unixTimestamp = 60 /\ CandleNum(candleData[2].volume) = 5

\* C3: for a non-empty tick sequence there are as many candles as distinct
\* bucketStart values among the input ticks, and no two candles share one
C3_OneCandlePerInputBucket ==
    (aggPc = "done" /\ AllTicks /\ records # << >>) =>
        /\ Len(candleData) = Cardinality({BucketStart(records[k]) : k \in 1..Len(records)})
        /\ \A j, k \in 1..Len(candleData) :
              j # k => candleData[j].unixTimestamp # candleData[k].unixTimestamp

\* C4: the returned candles are strictly ascending in unixTimestamp
C4_StrictlyAscending ==
    aggPc = "done" =>
        \A j \in 1..(Len(candleData) - 1) :
            candleData[j].unixTimestamp < candleData[j + 1].unixTimestamp

\* C4 witness: ticks that arrived in descending bucket order came back as more
\* than one candle
C4_Witness ==
    /\ aggPc = "done"
    /\ AllTicks
    /\ Len(candleData) >= 2
    /\ \E j, k \in 1..Len(records) :
          /\ j < k
          /\ VolumeAvailable(records[j]) /\ VolumeAvailable(records[k])
          /\ BucketStart(records[j]) > BucketStart(records[k])
          /\ BucketStart(records[k]) < 0

RECURSIVE SumCandleVolumes(_)
SumCandleVolumes(candles) ==
    IF candles = << >> THEN 0
    ELSE Val(ToBigInt(candles[1].volume)) + SumCandleVolumes(Tail(candles))

\* C5: in exact mode the candles' volumes add up to the sum of the available
\* tick volumes
C5_ExactVolumeConserved ==
    (aggPc = "done" /\ outputAsString /\ AllTicks) =>
        SumCandleVolumes(candleData) = SumVolumes(records)

\* C5 witness: an exact call over an unavailable-volume tick and two ticks with
\* volume that share a bucket
C5_Witness ==
    /\ aggPc = "done" /\ outputAsString /\ AllTicks
    /\ \E k \in 1..Len(records) : ~VolumeAvailable(records[k])
    /\ \E j, k \in 1..Len(records) :
          /\ j # k
          /\ VolumeAvailable(records[j]) /\ VolumeAvailable(records[k])
          /\ BucketStart(records[j]) = BucketStart(records[k])
    /\ SumCandleVolumes(candleData) = 10

CandleOrdered(c) ==
    /\ CandleNum(c.low) <= CandleNum(c.open)
    /\ CandleNum(c.low) <= CandleNum(c.close)
    /\ CandleNum(c.low) <= CandleNum(c.high)
    /\ CandleNum(c.high) >= CandleNum(c.open)
    /\ CandleNum(c.high) >= CandleNum(c.close)

TickOrdered(r) ==
    /\ Price(r.Low) <= Price(r.Open) /\ Price(r.Low) <= Price(r.Close)
    /\ Price(r.Open) <= Price(r.High) /\ Price(r.Close) <= Price(r.High)

\* C6 as stated: every returned candle has low <= open, close, high and
\* high >= open, close
C6_EveryCandleOrdered ==
    (aggPc = "done" /\ AllTicks) =>
        \A j \in 1..Len(candleData) : CandleOrdered(candleData[j])

\* C6 amended: when every folded tick has low <= open, close <= high, every
\* returned candle has low <= open, close, high and high >= open, close
C6_CandleOrderedForOrderedTicks ==
    (/\ aggPc = "done"
     /\ AllTicks
     /\ \A k \in 1..Len(records) : VolumeAvailable(records[k]) => TickOrdered(records[k])) =>
        \A j \in 1..Len(candleData) : CandleOrdered(candleData[j])

\* C6 witness: a candle folded from several ordered ticks, the last of which
\* closes above the first one's high
C6_Witness ==
    /\ aggPc = "done"
    /\ AllTicks
    /\ \A k \in 1..Len(records) : VolumeAvailable(records[k]) => TickOrdered(records[k])
    /\ \E j \in 1..Len(candleData) :
          /\ Len(FoldedTicksOfBucket(candleData[j].unixTimestamp)) >= 2
          /\ CandleNum(candleData[j].close) >
                Price(FoldedTicksOfBucket(candleData[j].unixTimestamp)[1].High)

\* --------------------------------------------------- properties: collection
PassComplete == fetchPc \in {"stringify", "written", "csvError"}

\* the volume a recorded tick contributes: 0 when its lookup failed
OwnVolume(data) == IF data.tVol = ErrorText THEN 0 ELSE Val(ToBigInt(data.tVol))

DateChanged(k) == k = 1 \/ tVolData[k].utcDate # tVolData[k - 1].utcDate

RECURSIVE SumOwnVolumes(_)
SumOwnVolumes(data) ==
    IF data = << >> THEN 0 ELSE OwnVolume(data[1]) + SumOwnVolumes(Tail(data))

SameDate(d) == SelectSeq(tVolData, LAMBDA data : data.utcDate = d)

\* C7: the recorded cumulative daily volume of tick k is its own volume (0 when
\* unavailable) when its UTC date differs from tick k-1's, and otherwise the
\* previous tick's recorded value plus its own volume
C7_DailyCumulativeResetsOnDateChange ==
    \A k \in 1..Len(tVolData) :
        Val(ToBigInt(tVolData[k].cumulativeDailyVolume)) =
            IF DateChanged(k) THEN OwnVolume(tVolData[k])
            ELSE Val(ToBigInt(tVolData[k - 1].cumulativeDailyVolume)) + OwnVolume(tVolData[k])

NonDecreasingTimestamps ==
    \A k \in 2..Len(tVolData) : tVolData[k - 1].Timestamp <= tVolData[k].Timestamp

LastOfDate(k) == k = Len(tVolData) \/ tVolData[k + 1].utcDate # tVolData[k].utcDate

\* C8: after a pass over non-decreasing timestamps, the running daily volume
\* on the last tick of each UTC date equals that date's Daily Total Volume
C8_RunningAgreesWithDailyTotal ==
    (PassComplete /\ NonDecreasingTimestamps) =>
        \A k \in 1..Len(allCandleData) :
            LastOfDate(k) =>
                Val(ToBigInt(allCandleData[k].cumulativeDailyVolume)) =
                    Val(ToBigInt(allCandleData[k].dailyTotalVolume))

C10_TotalCumulativeIsPrefixSum ==
    /\ \A k \in 1..Len(tVolData) :
          /\ Val(ToBigInt(tVolData[k].cumulativeTotalVolume)) =
                SumOwnVolumes(SubSeq(tVolData, 1, k))
          /\ k > 1 => Val(ToBigInt(tVolData[k - 1].cumulativeTotalVolume))
                          <= Val(ToBigInt(tVolData[k].cumulativeTotalVolume))
          /\ tVolData[k].tVol = ErrorText =>
                tVolData[k].cumulativeTotalVolume =
                    IF k = 1 THEN Txt0 ELSE tVolData[k - 1].cumulativeTotalVolume
    /\ \A k \in 1..Len(allCandleData) :
          allCandleData[k].cumulativeTotalVolume = tVolData[k].cumulativeTotalVolume
    /\ cumulativeTotalVolume = SumOwnVolumes(tVolData)

\* C10 witness: a pass that crossed a date boundary, met an unavailable volume
\* and then went on adding to a positive total
C10_Witness ==
    /\ Len(tVolData) = 3
    /\ tVolData[1].utcDate # tVolData[2].utcDate
    /\ OwnVolume(tVolData[1]) > 0
    /\ tVolData[2].tVol = ErrorText
    /\ OwnVolume(tVolData[3]) > 0
    /\ Val(ToBigInt(tVolData[3].cumulativeTotalVolume)) =
          OwnVolume(tVolData[1]) + OwnVolume(tVolData[3])

\* ------------------------------------------------ properties: failed fetches
LastIssued == issued[Len(issued)]
StructuralKinds == {"totalTx", "txTimeStamp", "candleStickData"}

\* the step has recorded the tick under way with the unavailable marker and has
\* gone on to the next tick, or to the end of the pass after the last one
TickRecordedAsUnavailable ==
    /\ Len(allCandleData') = Len(allCandleData) + 1
    /\ LET row == allCandleData'[Len(allCandleData')]
       IN  /\ row.index = i
           /\ row.timestamp = curTimestamp
           /\ row.open = Val(curCandle).open /\ row.close = Val(curCandle).close
           /\ row.high = Val(curCandle).high /\ row.low = Val(curCandle).low
           /\ row.tVol = ErrorText
    /\ IF i < totalTx
       THEN fetchPc' = "txTimeStamp" /\ pending' = {CallOf("txTimeStamp", i + 1)}
       ELSE PassComplete' /\ pending' = {}

\* C11: a failed volume lookup for tick i records the tick with its index,
\* timestamp, OHLC and the unavailable marker and the pass goes on with tick
\* i + 1; a pass is only ever aborted by a structural fetch, and a pass that is
\* not aborted hands exactly totalTx records, in index order 1..totalTx, to the
\* CSV writer (none when totalTx is 0)
C11_VolumeFailureIsNotFatal ==
    /\ [][TVolFails => TickRecordedAsUnavailable]_vars
    /\ [](/\ fetchPc = "aborted" => LastIssued.kind \in StructuralKinds
          /\ \A k \in 1..Len(allCandleData) :
                /\ allCandleData[k].index = k
                /\ allCandleData[k].timestamp = tVolData[k].Timestamp
                /\ allCandleData[k].tVol = tVolData[k].tVol
                /\ allCandleData[k].tVol = ErrorText \/ CanonicalNat(allCandleData[k].tVol)
          /\ PassComplete => Len(allCandleData) = totalTx
          /\ fetchPc = "written" => csvFile = Num(allCandleData))

\* C11 witness: a written pass of three ticks whose second volume lookup failed
\* while the first and the third succeeded
C11_Witness ==
    /\ fetchPc = "written"
    /\ totalTx = 3
    /\ Len(Val(csvFile)) = 3
    /\ Val(csvFile)[1].tVol # ErrorText
    /\ Val(csvFile)[2].tVol = ErrorText
    /\ Val(csvFile)[2].index = 2
    /\ Val(csvFile)[3].tVol # ErrorText

\* the step has ended the pass: nothing is in flight, no call was issued, no
\* file exists
PassAborted ==
    /\ fetchPc' = "aborted"
    /\ pending' = {}
    /\ issued' = issued
    /\ csvFile' = Undefined

\* C12: a failed totalTx, txTimeStamp(i) or candleStickData fetch aborts the
\* pass: no further fetch is issued, nothing runs afterwards, and
\* candle_data.csv is not written; a file is only ever written after all
\* 1 + 3 * totalTx fetches of the pass were issued
C12_StructuralFailureAborts ==
    /\ [][StructuralFetchFails => PassAborted]_vars
    /\ [](/\ fetchPc = "aborted" =>
                /\ csvFile = Undefined
                /\ pending = {}
                /\ LastIssued.kind \in StructuralKinds
                /\ ~ ENABLED NextFetch
          /\ csvFile # Undefined =>
                /\ Len(issued) = 1 + 3 * totalTx
                /\ Len(Val(csvFile)) = totalTx)

\* C12 witness: the pass was aborted by the candle fetch of the second tick,
\* after one tick had been collected
C12_Witness ==
    /\ fetchPc = "aborted"
    /\ Len(allCandleData) = 1
    /\ LastIssued = CallOf("candleStickData", 2)
    /\ csvFile = Undefined

\* ------------------------------------------------ properties: fetch order
\* the k-th call of a pass: totalTx first, then three calls per tick
ExpectedCall(k) ==
    IF k = 1 THEN CallOf("totalTx", 0)
    ELSE CallOf(<< "txTimeStamp", "candleStickData", "tVol" >>[((k - 2) % 3) + 1],
                ((k - 2) \div 3) + 1)

\* C16: the fetches of a pass are issued one at a time in the order
\* txTimeStamp(i), candleStickData, tVol for i = 1..totalTx ascending: at most
\* one fetch is in flight, it is the one issued last, and every issued fetch
\* stands at its place in that order
C16_FetchesStrictlySequential ==
    /\ Cardinality(pending) <= 1
    /\ pending \subseteq {LastIssued}
    /\ \A k \in 1..Len(issued) : issued[k] = ExpectedCall(k)
    /\ \A k \in 2..Len(issued) : issued[k].index <= totalTx

\* C16 witness: a pass of two ticks has issued all seven fetches, the volume
\* lookup of the first tick having failed
C16_Witness ==
    /\ totalTx = 2
    /\ Len(issued) = 7
    /\ pending = {}
    /\ Len(tVolData) = 2
    /\ tVolData[1].tVol = ErrorText

\* ------------------------------------------------ properties: malformed records
\* the text is an integer for the strict and for the lenient parser alike
ParsesAsInteger(text) == IsNum(ToBigInt(text)) /\ IsNum(ParseInt(text))

WellParsed(r) ==
    /\ ParsesAsInteger(r.UnixTimestamp)
    /\ ParsesAsInteger(r.Open) /\ ParsesAsInteger(r.Close)
    /\ ParsesAsInteger(r.High) /\ ParsesAsInteger(r.Low)
    /\ ParsesAsInteger(r.tVol)

\* C13: in exact mode a record with a field that does not parse as an integer
\* is left out of the call: the call returns, and what it returns are the
\* candles of the records that parse, no field having been taken as zero
C13_MalformedRecordExcluded ==
    (outputAsString /\ aggPc \in {"done", "thrown"}) =>
        /\ aggPc = "done"
        /\ candleData = EmitExact(FoldAllExact(SelectSeq(records, WellParsed),
                                               timeframeInSeconds))

\* ------------------------------------------------ properties: the two modes
AllCanonicalNat ==
    \A k \in 1..Len(records) :
        /\ CanonicalNat(records[k].UnixTimestamp)
        /\ CanonicalNat(records[k].Open) /\ CanonicalNat(records[k].Close)
        /\ CanonicalNat(records[k].High) /\ CanonicalNat(records[k].Low)
        /\ CanonicalNat(records[k].tVol)

\* a candle of the approximate branch and one of the exact branch that stand
\* for the same bucket and the same numbers
SameCandle(number, string) ==
    /\ number.unixTimestamp = string.unixTimestamp
    /\ number.open = Val(ToBigInt(string.open))
    /\ number.high = Val(ToBigInt(string.high))
    /\ number.low = Val(ToBigInt(string.low))
    /\ number.close = Val(ToBigInt(string.close))
    /\ number.volume = Val(ToBigInt(string.volume))

\* what the branch that was not taken returns for the same records and width
OtherBranchResult ==
    IF outputAsString THEN EmitApprox(FoldAllApprox(records, timeframeInSeconds))
    ELSE EmitExact(FoldAllExact(records, timeframeInSeconds))

\* C17: on records whose six fields are all canonical non-negative decimal
\* integers the call returns in either mode, and the candles of the approximate
\* and of the exact branch agree in number, in bucketStart order and, candle by
\* candle, in the numeric value of open, high, low, close and volume
C17_ModesAgreeOnCanonicalIntegers ==
    (aggPc \in {"done", "thrown"} /\ AllCanonicalNat) =>
        /\ aggPc = "done"
        /\ LET approx == IF outputAsString THEN OtherBranchResult ELSE candleData
               exact == IF outputAsString THEN candleData ELSE OtherBranchResult
           IN  /\ Len(approx) = Len(exact)
               /\ \A k \in 1..Len(approx) : SameCandle(approx[k], exact[k])

\* C17 witness: three canonical ticks given out of time order, two of them in
\* one bucket, returned by the approximate branch as two candles
C17_Witness ==
    /\ aggPc = "done"
    /\ ~outputAsString
    /\ AllCanonicalNat
    /\ Len(records) = 3
    /\ Len(candleData) = 2
    /\ records[1].UnixTimestamp = Txt90
    /\ candleData[1].volume = 10
    /\ candleData[1].low < Val(ToBigInt(records[2].Low))

\* ------------------------------------------------ properties: repeated calls
SameArguments(a, b) ==
    /\ a.records = b.records
    /\ a.timeframeInSeconds = b.timeframeInSeconds
    /\ a.outputAsString = b.outputAsString

SameOutcome(a, b) == a.outcome = b.outcome /\ a.candleData = b.candleData

\* the finished calls, the one that has just finished included
AllFinishedCalls ==
    IF aggPc \in {"done", "thrown"} THEN Append(calls, FinishedCall) ELSE calls

\* C15: two calls of aggregateCandleData with the same records, width and mode
\* end the same way with identical candle sequences, whatever calls were made
\* in between, and the records array is never changed by a call
C15_DeterministicAndInputUntouched ==
    /\ records = argRecords
    /\ \A a, b \in 1..Len(AllFinishedCalls) :
          SameArguments(AllFinishedCalls[a], AllFinishedCalls[b]) =>
              SameOutcome(AllFinishedCalls[a], AllFinishedCalls[b])

\* C15 witness: the third call repeats the first, which folded two ticks into
\* one candle, after a call on other records in between
C15_Witness ==
    /\ Len(calls) = 2
    /\ aggPc = "done"
    /\ SameArguments(calls[1], FinishedCall)
    /\ calls[1].records = << TickA, TickB >>
    /\ calls[2].records = << TickB, TickA >>
    /\ calls[2].outputAsString = outputAsString
    /\ Len(candleData) = 1

\* ------------------------------------------------ properties: unknown labels
\* C14: a request whose timeframe label is not one of the 15 labels of
\* timeframeMap is answered with status 400, the invalid-timeframe error and the
\* list of the valid labels, and the handler has called neither
\* getCandleRecords nor aggregateCandleData for it
C14_UnknownLabelRejected ==
    (res # Undefined /\ ~IsOwnLabel(timeframe)) =>
        /\ Val(res).status = 400
        /\ Val(res).body.availableTimeframes = TimeframeLabels
        /\ trace = << >>

\* ------------------------------------------------ properties: block timestamps
\* C18: all records of events of one block carry the same timestamp, whatever
\* provider.getBlock answered along the way, and provider.getBlock is called
\* at most once for a block
C18_SameBlockSameTimestamp ==
    /\ \A a, b \in 1..Len(eventRecords) :
          eventRecords[a].blockNumber = eventRecords[b].blockNumber =>
              eventRecords[a].timestamp = eventRecords[b].timestamp
    /\ \A a, b \in 1..Len(getBlockCalls) :
          getBlockCalls[a] = getBlockCalls[b] => a = b
====
